---- MODULE Spec2Model ----
(* Model of src/etl/getdata_apps.py: the month filter (a pure function over  *)
(* filename strings) and the sequential fetch / filter / download loop of     *)
(* download_month_data over a local filesystem and an unreliable network.      *)
EXTENDS Integers, Sequences, FiniteSets, TLC

(* ------------------------------------------------------------------------ *)
(* Bounds of the model                                                        *)
(* ------------------------------------------------------------------------ *)

\* longest index list handed to the month filter in FilterSpec
MaxLen == 3

\* longest index list a server returns in Spec
MaxIndexLen == 2

(* ------------------------------------------------------------------------ *)
(* Strings: a Python str is a sequence of one-character strings               *)
(* ------------------------------------------------------------------------ *)

Digits == {"0", "1", "2", "3", "4", "5", "6", "7", "8", "9"}

DigitVal(c) ==
    CASE c = "0" -> 0 [] c = "1" -> 1 [] c = "2" -> 2 [] c = "3" -> 3
      [] c = "4" -> 4 [] c = "5" -> 5 [] c = "6" -> 6 [] c = "7" -> 7
      [] c = "8" -> 8 [] c = "9" -> 9 [] OTHER -> 0

\* code point of a character (Python compares str by code points)
Ord(c) ==
    CASE c = " " -> 32 [] c = "-" -> 45 [] c = "." -> 46
      [] c \in Digits -> 48 + DigitVal(c)
      [] c = "a" -> 97 [] c = "b" -> 98 [] c = "d" -> 100 [] c = "j" -> 106
      [] c = "k" -> 107 [] c = "n" -> 110 [] c = "o" -> 111 [] c = "s" -> 115
      [] c = "x" -> 120 [] OTHER -> 127

\* s < t for Python str
RECURSIVE StrLess(_, _)
StrLess(s, t) ==
    IF t = <<>> THEN FALSE
    ELSE IF s = <<>> THEN TRUE
    ELSE IF Ord(Head(s)) # Ord(Head(t)) THEN Ord(Head(s)) < Ord(Head(t))
    ELSE StrLess(Tail(s), Tail(t))

DotJson == <<".", "j", "s", "o", "n">>

\* filename.replace(".json", ""): every occurrence, left to right, is removed
RECURSIVE StrReplaceJson(_)
StrReplaceJson(s) ==
    IF Len(s) < Len(DotJson) THEN s
    ELSE IF SubSeq(s, 1, Len(DotJson)) = DotJson
         THEN StrReplaceJson(SubSeq(s, Len(DotJson) + 1, Len(s)))
         ELSE <<Head(s)>> \o StrReplaceJson(Tail(s))

(* ------------------------------------------------------------------------ *)
(* datetime.strptime(date_str, "%Y-%m-%d")                                    *)
(* ------------------------------------------------------------------------ *)

\* the character at position p, or "" past the end
At(s, p) == IF p >= 1 /\ p <= Len(s) THEN s[p] ELSE ""

\* %m is 1[0-2]|0[1-9]|[1-9]: widths of the alternatives matching at p, in order
MonthAlts(s, p) ==
    LET alts == << [w |-> 2, ok |-> At(s, p) = "1" /\ At(s, p + 1) \in {"0", "1", "2"}],
                   [w |-> 2, ok |-> At(s, p) = "0" /\ At(s, p + 1) \in Digits \ {"0"}],
                   [w |-> 1, ok |-> At(s, p) \in Digits \ {"0"}] >>
    IN  SelectSeq(alts, LAMBDA a : a.ok)

\* %d is 3[0-1]|[1-2]\d|0[1-9]|[1-9]| [1-9]
DayAlts(s, p) ==
    LET alts == << [w |-> 2, ok |-> At(s, p) = "3" /\ At(s, p + 1) \in {"0", "1"}],
                   [w |-> 2, ok |-> At(s, p) \in {"1", "2"} /\ At(s, p + 1) \in Digits],
                   [w |-> 2, ok |-> At(s, p) = "0" /\ At(s, p + 1) \in Digits \ {"0"}],
                   [w |-> 1, ok |-> At(s, p) \in Digits \ {"0"}],
                   [w |-> 2, ok |-> At(s, p) = " " /\ At(s, p + 1) \in Digits \ {"0"}] >>
    IN  SelectSeq(alts, LAMBDA a : a.ok)

\* int() of the field of width w at position p
FieldVal(s, p, w) ==
    IF w = 1 THEN DigitVal(s[p]) ELSE 10 * DigitVal(s[p]) + DigitVal(s[p + 1])

IsLeap(y) == (y % 4 = 0 /\ y % 100 # 0) \/ y % 400 = 0

DaysInMonth(y, m) ==
    IF m = 2 THEN (IF IsLeap(y) THEN 29 ELSE 28)
    ELSE IF m \in {4, 6, 9, 11} THEN 30 ELSE 31

NoDate == [ok |-> FALSE, year |-> 0, month |-> 0, day |-> 0]

\* ok = FALSE stands for ValueError
strptime(s) ==
    LET yearOk == (\A p \in 1..4 : At(s, p) \in Digits) /\ At(s, 5) = "-"
        \* the regex backtracks over the month alternatives until the rest matches
        ms == SelectSeq(MonthAlts(s, 6),
                        LAMBDA a : At(s, 6 + a.w) = "-" /\ DayAlts(s, 7 + a.w) # <<>>)
    IN  IF ~yearOk \/ ms = <<>> THEN NoDate
        ELSE LET mw == ms[1].w
                 dw == DayAlts(s, 7 + mw)[1].w
                 y  == 1000 * DigitVal(s[1]) + 100 * DigitVal(s[2])
                         + 10 * DigitVal(s[3]) + DigitVal(s[4])
                 m  == FieldVal(s, 6, mw)
                 d  == IF s[7 + mw] = " " THEN DigitVal(s[8 + mw])
                       ELSE FieldVal(s, 7 + mw, dw)
             IN  IF 6 + mw + dw # Len(s) THEN NoDate   \* unconverted data remains
                 ELSE IF y < 1 \/ d > DaysInMonth(y, m) THEN NoDate
                 ELSE [ok |-> TRUE, year |-> y, month |-> m, day |-> d]

(* ------------------------------------------------------------------------ *)
(* Index entries                                                              *)
(* ------------------------------------------------------------------------ *)

Y2024 == <<"2", "0", "2", "4">>
Y2023 == <<"2", "0", "2", "3">>
Str(s) == [isStr |-> TRUE, s |-> s]

\* the entries an index.json may hold; an index is a sequence of positions here
Pool ==
    << Str(Y2024 \o <<"-", "0", "1", "-", "1", "5">> \o DotJson),
       Str(Y2024 \o <<"-", "0", "1", "-", "0", "1">> \o DotJson),
       Str(Y2024 \o <<"-", "0", "2", "-", "0", "1">> \o DotJson),
       [isStr |-> FALSE, s |-> <<>>],                                  \* a JSON number
       Str(Y2023 \o <<"-", "0", "1", "-", "0", "1">> \o DotJson),
       Str(Y2024 \o <<"-", "0", "2", "-", "2", "9">> \o DotJson),
       Str(<<"b", "a", "d">> \o DotJson),
       Str(Y2024 \o <<"-", "0", "1", "-", "0", "1">>),                 \* no suffix
       Str(Y2024 \o <<"-", "1", "-", "5">> \o DotJson),                \* not padded
       Str(Y2024 \o <<"-", "0", "1">> \o DotJson \o <<"-", "0", "1">>),\* suffix inside
       Str(Y2024 \o <<"-", "0", "1", "-", "0", "1">> \o DotJson \o <<".", "b", "a", "k">>),
       Str(Y2024 \o <<"-", "0", "2", "-", "3", "0">> \o DotJson),      \* no such day
       Str(Y2023 \o <<"-", "0", "2", "-", "2", "9">> \o DotJson) >>    \* not a leap year

Entries == 1..Len(Pool)

\* the entries a server's index holds in Spec
MainEntries == {1, 3, 4}

Years == {2023, 2024}
Months == {1, 2}

\* the arguments of a run in Spec
MainTargets == {<<2024, 1>>, <<2023, 2>>}

\* all sequences over S of length at most n
SeqsUpTo(S, n) == UNION {[1..k -> S] : k \in 0..n}

(* ------------------------------------------------------------------------ *)
(* filter_files_for_month                                                     *)
(* ------------------------------------------------------------------------ *)

\* the condition with the year forgotten
DateMatchesMonthOnly(d, y, m) == d.month = m

\* file_date.year == year and file_date.month == month
DateMatches(d, y, m) == d.year = y /\ d.month = m

\* the for loop: acc is month_files; raised = TRUE is an exception other than
\* ValueError leaving the function (a non-str entry has no .replace)
RECURSIVE FilterLoop(_, _, _, _)
FilterLoop(idx, y, m, acc) ==
    IF idx = <<>> THEN [raised |-> FALSE, files |-> acc]
    ELSE LET e == Pool[Head(idx)]
         IN  IF ~e.isStr THEN [raised |-> TRUE, files |-> <<>>]
             ELSE LET d == strptime(StrReplaceJson(e.s))
                  IN  FilterLoop(Tail(idx), y, m,
                                 IF d.ok /\ DateMatches(d, y, m)
                                 THEN Append(acc, Head(idx)) ELSE acc)

\* insert entry e into the ascending list fs, after the entries not greater
RECURSIVE Insert(_, _)
Insert(e, files) ==
    IF files = <<>> THEN <<e>>
    ELSE IF StrLess(Pool[e].s, Pool[Head(files)].s) THEN <<e>> \o files
    ELSE <<Head(files)>> \o Insert(e, Tail(files))

RECURSIVE sorted(_)
sorted(files) ==
    IF files = <<>> THEN <<>>
    ELSE Insert(files[Len(files)], sorted(SubSeq(files, 1, Len(files) - 1)))

filter_files_for_month(idx, y, m) ==
    LET r == FilterLoop(idx, y, m, <<>>)
    IN  IF r.raised THEN r ELSE [raised |-> FALSE, files |-> sorted(r.files)]

(* ------------------------------------------------------------------------ *)
(* State                                                                      *)
(* ------------------------------------------------------------------------ *)

SERVERS == <<"http01.fdroid.net", "http02.fdroid.net", "http03.fdroid.net",
             "originserver.f-droid.org">>

Servers == {SERVERS[i] : i \in 1..Len(SERVERS)}

VARIABLES
    pc,                 \* where the run is
    year, month,        \* the arguments of the run
    si,                 \* position of `server` in SERVERS
    index,              \* download_month_data's index
    month_files,        \* download_month_data's month_files
    fi,                 \* position of `filename` in the list being downloaded
    successful, failed,
    total_successful, total_failed,
    rootDir,            \* SUB_DATA_DIR: "absent" or "dir"
    dirs,               \* the servers whose directory exists
    fs,                 \* fs[server][entry]: content at SUB_DATA_DIR/server/filename
    idxRes,             \* per server: outcome of fetch_index of the run
    idxGets,            \* per server: GETs of index.json issued in the run
    fileGets,           \* per target: GETs of the file issued in the run
    last,               \* the last call of download_file / the filter and its outcome
    nSelected,          \* entries the filter has selected in the run
    nTrue, nFalse       \* calls of download_file that returned True / False

vars == <<pc, year, month, si, index, month_files, fi, successful, failed,
          total_successful, total_failed, rootDir, dirs, fs, idxRes, idxGets,
          fileGets, last, nSelected, nTrue, nFalse>>

NoCall == [op |-> "none", server |-> "", file |-> 0, existed |-> FALSE,
           get |-> FALSE, ret |-> "none"]

NoFiles == [s \in Servers |-> [e \in MainEntries |-> "absent"]]
NoGets == [s \in Servers |-> [e \in MainEntries |-> 0]]

(* ------------------------------------------------------------------------ *)
(* download_file                                                              *)
(* ------------------------------------------------------------------------ *)

\* What the filesystem and the network do during one call of download_file: the
\* first operation of the call that fails, or "ok" when none does.
\*   mkdir_error  server_dir.mkdir raises (never when the directory exists)
\*   transport    re.get raises
\*   status       raise_for_status raises
\*   open_error   open(filepath, "w") raises
\*   badjson      response.json() raises, the file being open for writing
\*   dump_error   json.dump raises part way through the write
Envs == {"ok", "mkdir_error", "transport", "status", "open_error", "badjson",
         "dump_error"}

\* the check for an existing file left out
path_exists_never(server, filename) == FALSE

\* filepath.exists()
path_exists(server, filename) == fs[server][filename] # "absent"

\* One call. raised = TRUE: an exception leaves download_file; otherwise ret is
\* the boolean returned. get: re.get(url) was called. files, made: the files and
\* the directories after the call. A file holds "json" (the pretty-printed
\* document) or is "truncated" (created by open, the write never completed).
download_file(server, filename, env) ==
    IF env = "mkdir_error"
    THEN \* outside the try
         [raised |-> TRUE, ret |-> FALSE, get |-> FALSE, files |-> fs, made |-> dirs]
    ELSE LET made == dirs \cup {server}
             done(ret, get, content) ==
                 [raised |-> FALSE, ret |-> ret, get |-> get, made |-> made,
                  files |-> [fs EXCEPT ![server][filename] = content]]
         IN  IF path_exists(server, filename)
             THEN done(TRUE, FALSE, fs[server][filename])
             ELSE IF env \in {"transport", "status", "open_error"}
             THEN done(FALSE, TRUE, "absent")
             ELSE IF env \in {"badjson", "dump_error"}
             THEN done(FALSE, TRUE, "truncated")
             ELSE done(TRUE, TRUE, "json")

(* ------------------------------------------------------------------------ *)
(* download_month_data                                                        *)
(* ------------------------------------------------------------------------ *)

\* the inner loop walking the whole index
DownloadListAll(idx, files) == idx

\* the list the inner for loop walks
DownloadList(idx, files) == files

\* `break` in the except handler: the remaining servers are dropped
AfterFailureBreak(i) == Len(SERVERS) + 1

\* the except handler trying the same server again
AfterFailureRetry(i) == i

\* `continue` in the except handler: on to the next server
AfterFailure(i) == i + 1

\* The outer for loop moves to position i, or ends. The locals of the pass that
\* ends are dead (each is assigned again before it is read) and are cleared.
GoTo(i) ==
    /\ si' = i
    /\ pc' = IF i > Len(SERVERS) THEN "summary" ELSE "fetch"
    /\ index' = <<>>
    /\ month_files' = <<>>
    /\ fi' = 1
    /\ successful' = 0
    /\ failed' = 0

Init ==
    /\ pc = "start"
    /\ \E tgt \in MainTargets : year = tgt[1] /\ month = tgt[2]
    /\ si = 1
    /\ index = <<>>
    /\ month_files = <<>>
    /\ fi = 1
    /\ successful = 0
    /\ failed = 0
    /\ total_successful = 0
    /\ total_failed = 0
    /\ rootDir = "absent"
    /\ dirs = {}
    /\ fs = NoFiles
    /\ idxRes = [s \in Servers |-> "none"]
    /\ idxGets = [s \in Servers |-> 0]
    /\ fileGets = NoGets
    /\ last = NoCall
    /\ nSelected = 0
    /\ nTrue = 0
    /\ nFalse = 0

\* SUB_DATA_DIR.mkdir, not inside any try, and the counters set to zero
Start ==
    /\ pc = "start"
    /\ \E mk \in {"ok", "error"} :
         IF rootDir = "dir" \/ mk = "ok"
         THEN /\ rootDir' = "dir"
              /\ pc' = "fetch"
              /\ si' = 1
         ELSE /\ pc' = "crashed"
              /\ UNCHANGED <<rootDir, si>>
    /\ total_successful' = 0
    /\ total_failed' = 0
    /\ UNCHANGED <<year, month, index, month_files, fi, successful, failed,
                   dirs, fs, idxRes, idxGets, fileGets, last, nSelected, nTrue,
                   nFalse>>

\* fetch_index raises: re.get, raise_for_status or response.json
FetchFails ==
    /\ pc = "fetch"
    /\ \E kind \in {"transport", "status", "badjson"} :
         /\ idxRes' = [idxRes EXCEPT ![SERVERS[si]] = "fail"]
         /\ idxGets' = [idxGets EXCEPT ![SERVERS[si]] = @ + 1]
         /\ GoTo(AfterFailure(si))
    /\ UNCHANGED <<year, month, total_successful, total_failed, rootDir, dirs,
                   fs, fileGets, last, nSelected, nTrue, nFalse>>

\* fetch_index returns idx; the filter runs; the download loop is entered
FetchOk ==
    /\ pc = "fetch"
    /\ \E idx \in SeqsUpTo(MainEntries, MaxIndexLen) :
         LET r == filter_files_for_month(idx, year, month)
         IN  /\ idxRes' = [idxRes EXCEPT ![SERVERS[si]] = "ok"]
             /\ idxGets' = [idxGets EXCEPT ![SERVERS[si]] = @ + 1]
             /\ IF r.raised
                THEN /\ GoTo(AfterFailure(si))
                     /\ UNCHANGED nSelected
                ELSE /\ nSelected' = nSelected + Len(r.files)
                     /\ IF r.files = <<>>
                        THEN GoTo(si + 1)
                        ELSE /\ index' = idx
                             /\ month_files' = r.files
                             /\ pc' = "download"
                             /\ fi' = 1
                             /\ successful' = 0
                             /\ failed' = 0
                             /\ UNCHANGED si
    /\ UNCHANGED <<year, month, total_successful, total_failed, rootDir,
                   dirs, fs, fileGets, last, nTrue, nFalse>>

\* one pass of the inner for loop: download_file(server, filename) and the tally
Download ==
    /\ pc = "download"
    /\ \E env \in Envs :
         LET server == SERVERS[si]
             list == DownloadList(index, month_files)
             filename == list[fi]
             r == download_file(server, filename, env)
         IN  \* mkdir(parents=True, exist_ok=True) of a directory that exists succeeds
             /\ env = "mkdir_error" => server \notin dirs
             /\ fs' = r.files
             /\ dirs' = r.made
             /\ fileGets' = [fileGets EXCEPT ![server][filename] =
                                @ + (IF r.get THEN 1 ELSE 0)]
             /\ last' = [op |-> "download_file", server |-> server,
                         file |-> filename, existed |-> fs[server][filename] # "absent",
                         get |-> r.get,
                         ret |-> IF r.raised THEN "raised"
                                 ELSE IF r.ret THEN "True" ELSE "False"]
             /\ IF r.raised
                THEN /\ GoTo(AfterFailure(si))
                     /\ UNCHANGED <<total_successful, total_failed, nTrue, nFalse>>
                ELSE /\ nTrue' = nTrue + (IF r.ret THEN 1 ELSE 0)
                     /\ nFalse' = nFalse + (IF r.ret THEN 0 ELSE 1)
                     /\ IF fi = Len(list)
                        THEN /\ total_successful' =
                                  total_successful + successful + (IF r.ret THEN 1 ELSE 0)
                             /\ total_failed' =
                                  total_failed + failed + (IF r.ret THEN 0 ELSE 1)
                             /\ GoTo(si + 1)
                        ELSE /\ successful' = successful + (IF r.ret THEN 1 ELSE 0)
                             /\ failed' = failed + (IF r.ret THEN 0 ELSE 1)
                             /\ fi' = fi + 1
                             /\ UNCHANGED <<pc, si, index, month_files,
                                            total_successful, total_failed>>
    /\ UNCHANGED <<year, month, rootDir, idxRes, idxGets, nSelected>>

\* the overall summary is logged and the function returns
Summary ==
    /\ pc = "summary"
    /\ pc' = "done"
    /\ UNCHANGED <<year, month, si, index, month_files, fi, successful, failed,
                   total_successful, total_failed, rootDir, dirs, fs, idxRes,
                   idxGets, fileGets, last, nSelected, nTrue, nFalse>>

Next == Start \/ FetchFails \/ FetchOk \/ Download \/ Summary

Spec == Init /\ [][Next]_vars

(* ------------------------------------------------------------------------ *)
(* The month filter on its own                                                *)
(* ------------------------------------------------------------------------ *)

FilterInit ==
    /\ pc = "filter_call"
    /\ year \in Years
    /\ month \in Months
    /\ si = 1
    /\ index \in SeqsUpTo(Entries, MaxLen)
    /\ month_files = <<>>
    /\ fi = 1
    /\ successful = 0
    /\ failed = 0
    /\ total_successful = 0
    /\ total_failed = 0
    /\ rootDir = "absent"
    /\ dirs = {}
    /\ fs = NoFiles
    /\ idxRes = [s \in Servers |-> "none"]
    /\ idxGets = [s \in Servers |-> 0]
    /\ fileGets = NoGets
    /\ last = NoCall
    /\ nSelected = 0
    /\ nTrue = 0
    /\ nFalse = 0

\* month_files = filter_files_for_month(index, year, month)
FilterCall ==
    /\ pc = "filter_call"
    /\ LET r == filter_files_for_month(index, year, month)
       IN  /\ month_files' = r.files
           /\ last' = [NoCall EXCEPT !.op = "filter",
                          !.ret = IF r.raised THEN "raised" ELSE "returned"]
    /\ pc' = "filter_done"
    /\ UNCHANGED <<year, month, si, index, fi, successful, failed,
                   total_successful, total_failed, rootDir, dirs, fs, idxRes,
                   idxGets, fileGets, nSelected, nTrue, nFalse>>

FilterNext == FilterCall

FilterSpec == FilterInit /\ [][FilterNext]_vars

(* ------------------------------------------------------------------------ *)
(* Properties                                                                 *)
(* ------------------------------------------------------------------------ *)

Count(e, seq) == Cardinality({k \in 1..Len(seq) : seq[k] = e})

\* the text has the shape DDDD-DD-DD.json
MatchesPattern(e) ==
    LET s == Pool[e].s
    IN  /\ Pool[e].isStr
        /\ Len(s) = 10 + Len(DotJson)
        /\ \A p \in {1, 2, 3, 4, 6, 7, 9, 10} : s[p] \in Digits
        /\ s[5] = "-" /\ s[8] = "-"
        /\ SubSeq(s, 11, Len(s)) = DotJson

NameYear(e) ==
    LET s == Pool[e].s
    IN  1000 * DigitVal(s[1]) + 100 * DigitVal(s[2]) + 10 * DigitVal(s[3]) + DigitVal(s[4])

NameMonth(e) == 10 * DigitVal(Pool[e].s[6]) + DigitVal(Pool[e].s[7])

NameDay(e) == 10 * DigitVal(Pool[e].s[9]) + DigitVal(Pool[e].s[10])

\* a filename of the valid form: YYYY-MM-DD.json naming a day of the calendar
IsValidName(e) ==
    /\ MatchesPattern(e)
    /\ NameYear(e) >= 1
    /\ NameMonth(e) \in 1..12
    /\ NameDay(e) \in 1..DaysInMonth(NameYear(e), NameMonth(e))

\* C1: when the target path exists as download_file is called, the call issues
\* no HTTP request, returns True and leaves every file as it was.
C1_ExistingFileSkipped ==
    [][\A s \in Servers, f \in MainEntries :
          (pc = "download" /\ last'.server = s /\ last'.file = f
             /\ fs[s][f] # "absent")
          => (last'.ret = "True" /\ ~last'.get /\ fileGets' = fileGets
                /\ idxGets' = idxGets /\ fs' = fs)]_vars

\* a call of download_file found its target and returned True
C1_Witness ==
    last.op = "download_file" /\ last.existed /\ last.ret = "True" /\ ~last.get

\* C2: once the run is past the server loop, every server listed after one
\* whose index fetch failed has had its own index fetch attempted.
C2_LaterServersStillFetched ==
    \A i, j \in 1..Len(SERVERS) :
        (i < j /\ idxRes[SERVERS[i]] = "fail" /\ (pc \in {"summary", "done"} \/ si > j))
        => (idxGets[SERVERS[j]] >= 1 /\ idxRes[SERVERS[j]] # "none")

\* the first and third index fetches failed, the second and fourth succeeded
C2_Witness ==
    /\ pc = "done"
    /\ idxRes[SERVERS[1]] = "fail" /\ idxRes[SERVERS[2]] = "ok"
    /\ idxRes[SERVERS[3]] = "fail" /\ idxRes[SERVERS[4]] = "ok"

\* C3: every failure inside download_file comes back as the return value False;
\* no exception leaves the call.
C3_AllFailuresReturnFalse ==
    last.op = "download_file" => last.ret \in {"True", "False"}

\* C4: for an index of valid filenames the filter returns exactly the entries
\* whose year and month equal the target, in ascending lexicographic order.
C4_FilterExactAndSorted ==
    (pc = "filter_done" /\ \A k \in 1..Len(index) : IsValidName(index[k]))
    => /\ last.ret = "returned"
       /\ \A e \in Entries :
            Count(e, month_files) =
               IF IsValidName(e) /\ NameYear(e) = year /\ NameMonth(e) = month
               THEN Count(e, index) ELSE 0
       /\ \A k \in 1..(Len(month_files) - 1) :
            ~StrLess(Pool[month_files[k + 1]].s, Pool[month_files[k]].s)

\* three valid names, two of the month and listed in descending order, one not
C4_Witness ==
    /\ pc = "filter_done"
    /\ year = 2024 /\ month = 1
    /\ index = <<1, 3, 2>>
    /\ month_files = <<2, 1>>

\* C5: an entry that does not match YYYY-MM-DD.json is left out of the result,
\* and the filter does not raise.
C5_MalformedExcludedWithoutRaising ==
    pc = "filter_done"
    => /\ last.ret # "raised"
       /\ \A k \in 1..Len(index) :
            ~MatchesPattern(index[k]) => Count(index[k], month_files) = 0

\* C6 as stated: at most one GET per server index and per (server, filename).
C6_AtMostOneGetPerTarget ==
    /\ \A s \in Servers : idxGets[s] <= 1
    /\ \A s \in Servers, f \in MainEntries : fileGets[s][f] <= 1

\* C6 as amended: at most one GET per server index; a step issues at most one
\* file GET, for the entry of the filtered list being processed, only if its
\* target path does not exist, and then moves on to the next entry.
C6_NoRetry ==
    [][/\ \A s \in Servers : idxGets'[s] <= 1
       /\ \A s \in Servers, f \in MainEntries :
            fileGets'[s][f] # fileGets[s][f]
            => /\ fileGets'[s][f] = fileGets[s][f] + 1
               /\ \A s2 \in Servers, f2 \in MainEntries :
                    (s2 # s \/ f2 # f) => fileGets'[s2][f2] = fileGets[s2][f2]
               /\ fs[s][f] = "absent"
               /\ pc = "download" /\ s = SERVERS[si] /\ f = month_files[fi]
               /\ (pc' = "download" => (si' = si /\ fi' = fi + 1))
               /\ (pc' # "download" => (si' = si + 1 /\ fi = Len(month_files)))]_vars

\* a filename listed twice was requested twice, the first GET having failed
C6_Witness ==
    \E s \in Servers, f \in MainEntries : fileGets[s][f] = 2

\* C7: the run never ends with an uncaught error.
C7_NoFatalError == pc # "crashed"

\* C8: at the final summary the global counters hold every selected file once:
\* their sum is the number of filtered entries, total_successful the calls that
\* returned True and total_failed those that returned False.
C8_TallyComplete ==
    pc \in {"summary", "done"}
    => /\ total_successful + total_failed = nSelected
       /\ total_successful = nTrue
       /\ total_failed = nFalse

\* C9: a call that returns False for a target that did not exist leaves no file
\* at the target path.
C9_FailedDownloadLeavesNoFile ==
    (last.op = "download_file" /\ last.ret = "False" /\ ~last.existed)
    => fs[last.server][last.file] = "absent"

\* C10: a file is requested or written only for the server being processed,
\* whose index fetch succeeded in this run, and only if it is an entry of that
\* index which the month filter selected: one whose date is of the requested
\* year and month.
C10_OnlyFilteredFilesRequested ==
    [][(fileGets' # fileGets \/ fs' # fs) =>
       \A s \in Servers, f \in MainEntries :
          (fileGets'[s][f] # fileGets[s][f] \/ fs'[s][f] # fs[s][f])
          => /\ s = SERVERS[si]
             /\ idxRes[s] = "ok" /\ idxGets[s] = 1
             /\ Count(f, index) >= 1
             /\ Count(f, month_files) >= 1
             /\ Pool[f].isStr
             /\ LET d == strptime(StrReplaceJson(Pool[f].s))
                IN  d.ok /\ d.year = year /\ d.month = month]_vars

\* the first server's index fetch failed and nothing of it was requested; the
\* second server's file of the month was requested and written
C10_Witness ==
    /\ idxRes[SERVERS[1]] = "fail"
    /\ \A f \in MainEntries : fileGets[SERVERS[1]][f] = 0
    /\ idxRes[SERVERS[2]] = "ok"
    /\ fileGets[SERVERS[2]][1] = 1 /\ fs[SERVERS[2]][1] = "json"
    /\ fileGets[SERVERS[2]][3] = 0 /\ fs[SERVERS[2]][3] = "absent"

====
